---- MODULE Spec2Model ----
(***************************************************************************)
(* Model of cycle-count-zc: the hysteresis cycle counter and batch driver  *)
(* of cycle_count_zc.py and the readers and dispatchers of file_io.py.     *)
(*                                                                         *)
(* Strings the code inspects character by character (paths, column names,  *)
(* channel names and units) are sequences of one-character strings.        *)
(* float64 values are exact: samples are integers, quotients are pairs     *)
(* <<numerator, denominator>> with a positive denominator.                 *)
(***************************************************************************)
EXTENDS Integers, Sequences, FiniteSets, TLC

VARIABLES
    pc,             \* position of the running function
    caller,         \* "top" or "process_files": who called the reader
    entry,          \* the function called at top level
    signal,         \* count_cycles_zero_crossing: x
    threshold,      \* count_cycles_zero_crossing: threshold
    idx,            \* count_cycles_zero_crossing: position of the for loop in x
    state,          \* count_cycles_zero_crossing: state
    flips,          \* count_cycles_zero_crossing: flips
    cycles,         \* count_cycles_zero_crossing: returned value, None before
    filename,       \* file_io: filename argument
    ext,            \* dispatchers: ext
    route,          \* the reader the dispatcher returned into
    handle,         \* oFileTS: the LynxFile.FileTS COM object and its file
    meta,           \* what oFileTS reports: nChannels, nSamples, SampleFreq, SnName, SnUnit
    i,              \* read_lynx_file / read_lynx_headers: loop index
    data_matrix,    \* read_lynx_file: data_matrix
    channel_names,  \* read_lynx_file: channel_names; read_lynx_headers: nomes_sinais
    ret,            \* the reader's return value, None before
    err,            \* the exception the reader raised, None before
    paths,          \* process_files: paths
    k,              \* process_files: position of the for loop in paths
    rows,           \* process_files: rows
    df,             \* process_files: df, Unbound until a read succeeds
    printed,        \* process_files: the positions in paths reported as "Failed to read"
    report          \* process_files: the written cycle_counts.tsv, or how it ended

vars == <<pc, caller, entry, signal, threshold, idx, state, flips, cycles,
          filename, ext, route, handle, meta, i, data_matrix, channel_names,
          ret, err, paths, k, rows, df, printed, report>>

cycleVars == <<signal, threshold, idx, state, flips, cycles>>
ioVars == <<filename, ext, route, handle, meta, i, data_matrix, channel_names, ret, err>>
batchVars == <<paths, k, rows, df, printed, report>>

None == [kind |-> "None"]
Unbound == [kind |-> "Unbound"]

(***************************************************************************)
(* Bounds of the explored inputs.                                          *)
(***************************************************************************)
MaxLen == 4          \* longest signal given to count_cycles_zero_crossing
MaxVal == 2          \* samples range over -MaxVal..MaxVal

Samples == (0 - MaxVal)..MaxVal
Thresholds == (0 - 1)..(MaxVal - 1)

RECURSIVE SeqsUpTo(_, _)
SeqsUpTo(S, n) ==
    IF n = 0 THEN {<<>>}
    ELSE LET shorter == SeqsUpTo(S, n - 1)
         IN  shorter \cup {Append(s, v) : s \in {t \in shorter : Len(t) = n - 1}, v \in S}

(***************************************************************************)
(* cycle_count_zc.py                                                       *)
(***************************************************************************)
THRESHOLD == 10

\* A loop body that also enters a polarity on a sample equal to the threshold.
LoopBodyInclusive(s, f, value, t) ==
    IF s = 0
    THEN IF value >= t THEN <<1, f>>
         ELSE IF value <= 0 - t THEN <<0 - 1, f>>
         ELSE <<0, f>>
    ELSE IF s = 1
    THEN IF value <= 0 - t THEN <<0 - 1, f + 1>> ELSE <<s, f>>
    ELSE IF value >= t THEN <<1, f + 1>> ELSE <<s, f>>

\* A loop body that falls back to neutral on a sample inside the band.
LoopBodyReleases(s, f, value, t) ==
    IF s = 0
    THEN IF value > t THEN <<1, f>>
         ELSE IF value < 0 - t THEN <<0 - 1, f>>
         ELSE <<0, f>>
    ELSE IF s = 1
    THEN IF value < 0 - t THEN <<0 - 1, f + 1>>
         ELSE IF value <= t THEN <<0, f>> ELSE <<s, f>>
    ELSE IF value > t THEN <<1, f + 1>>
         ELSE IF value >= 0 - t THEN <<0, f>> ELSE <<s, f>>

\* One iteration of the for loop: <<state, flips>> after `value`.
LoopBody(s, f, value, t) ==
    IF s = 0
    THEN IF value > t THEN <<1, f>>
         ELSE IF value < 0 - t THEN <<0 - 1, f>>
         ELSE <<0, f>>
    ELSE IF s = 1
    THEN IF value < 0 - t THEN <<0 - 1, f + 1>> ELSE <<s, f>>
    ELSE IF value > t THEN <<1, f + 1>> ELSE <<s, f>>

RECURSIVE RunLoop(_, _, _, _)
RunLoop(x, t, s, f) ==
    IF x = <<>> THEN <<s, f>>
    ELSE LET after == LoopBody(s, f, Head(x), t)
         IN  RunLoop(Tail(x), t, after[1], after[2])

\* The whole call, as process_files makes it for every channel.
count_cycles_zero_crossing(x, t) == RunLoop(x, t, 0, 0)[2] \div 2

CountStep ==
    /\ pc = "cc_loop"
    /\ idx <= Len(signal)
    /\ LET after == LoopBody(state, flips, signal[idx], threshold)
       IN  /\ state' = after[1]
           /\ flips' = after[2]
    /\ idx' = idx + 1
    /\ UNCHANGED <<pc, caller, entry, signal, threshold, cycles, ioVars, batchVars>>

CountReturn ==
    /\ pc = "cc_loop"
    /\ idx > Len(signal)
    /\ cycles' = flips \div 2
    /\ pc' = "done"
    /\ UNCHANGED <<caller, entry, signal, threshold, idx, state, flips, ioVars, batchVars>>

(***************************************************************************)
(* Strings and numbers as Python and its libraries treat them.             *)
(***************************************************************************)
UpperCase == <<"A", "B", "C", "D", "E", "F", "G", "H", "I", "J", "K", "L", "M", "N", "O", "P", "Q", "R", "S", "T", "U", "V", "W", "X", "Y", "Z">>
LowerCase == <<"a", "b", "c", "d", "e", "f", "g", "h", "i", "j", "k", "l", "m", "n", "o", "p", "q", "r", "s", "t", "u", "v", "w", "x", "y", "z">>
Digits == <<"0", "1", "2", "3", "4", "5", "6", "7", "8", "9">>
Whitespace == {" ", "\t", "\n", "\r"}

Range(s) == {s[j] : j \in DOMAIN s}

\* str.lower() on one character
LowerChar(c) ==
    IF c \in Range(UpperCase)
    THEN LowerCase[CHOOSE j \in DOMAIN UpperCase : UpperCase[j] = c]
    ELSE c

\* str.lower()
lower(s) == [j \in DOMAIN s |-> LowerChar(s[j])]

\* str(n) for n >= 0
RECURSIVE str(_)
str(n) ==
    IF n < 10 THEN <<Digits[n + 1]>>
    ELSE str(n \div 10) \o <<Digits[(n % 10) + 1]>>

LastIndex(p, S) ==
    LET hits == {j \in DOMAIN p : p[j] \in S}
    IN  IF hits = {} THEN 0 ELSE CHOOSE j \in hits : \A h \in hits : h <= j

\* os.path.splitext (ntpath): <<root, ext>>
splitext(p) ==
    LET sepIndex == LastIndex(p, {"\\", "/"})
        dotIndex == LastIndex(p, {"."})
    IN  IF /\ dotIndex > sepIndex
           /\ \E j \in (sepIndex + 1)..(dotIndex - 1) : p[j] # "."
        THEN <<SubSeq(p, 1, dotIndex - 1), SubSeq(p, dotIndex, Len(p))>>
        ELSE <<p, <<>>>>

\* os.path.basename (ntpath), drive-letter paths
basename(p) ==
    LET q == IF Len(p) >= 2 /\ p[2] = ":" THEN SubSeq(p, 3, Len(p)) ELSE p
    IN  SubSeq(q, LastIndex(q, {"\\", "/"}) + 1, Len(q))

\* str.strip()
strip(s) ==
    LET solid == {j \in DOMAIN s : s[j] \notin Whitespace}
    IN  IF solid = {} THEN <<>>
        ELSE SubSeq(s, CHOOSE j \in solid : \A h \in solid : j <= h,
                       CHOOSE j \in solid : \A h \in solid : h <= j)

RECURSIVE SkipWhitespace(_)
SkipWhitespace(s) ==
    IF s # <<>> /\ Head(s) \in Whitespace THEN SkipWhitespace(Tail(s)) ELSE s

\* re.sub(r'\s+', '_', s)
RECURSIVE sub_whitespace(_)
sub_whitespace(s) ==
    IF s = <<>> THEN <<>>
    ELSE IF Head(s) \in Whitespace
    THEN <<"_">> \o sub_whitespace(SkipWhitespace(s))
    ELSE <<Head(s)>> \o sub_whitespace(Tail(s))

\* the class [\w\-./]
Kept(c) ==
    c \in Range(UpperCase) \cup Range(LowerCase) \cup Range(Digits) \cup {"_", "-", ".", "/"}

\* re.sub(r'[^\w\-./]', '', s)
sub_unwanted(s) == SelectSeq(s, Kept)

\* float64 quotients, exact: <<numerator, denominator>>, denominator > 0
Rat(n, d) == IF d < 0 THEN <<0 - n, 0 - d>> ELSE <<n, d>>
RatEq(a, b) == a[1] * b[2] = b[1] * a[2]
RatSub(a, b) == <<a[1] * b[2] - b[1] * a[2], a[2] * b[2]>>

\* round(x, 4) of a quotient, ties to even
round4(q) ==
    LET scaled == q[1] * 10000
        lo == scaled \div q[2]
        twice == 2 * (scaled % q[2])
        n == IF twice > q[2] \/ (twice = q[2] /\ lo % 2 = 1) THEN lo + 1 ELSE lo
    IN  <<n, 10000>>

(***************************************************************************)
(* The files the readers are run on.                                       *)
(***************************************************************************)
MaxChannels == 3     \* most channels of a Lynx file
MaxSamples == 3      \* most samples of a Lynx channel and most rows of a table
MaxCols == 3         \* most columns of a text table
MaxFiles == 2        \* most files selected in one batch

LynxExts == {<<".", "t", "e", "m">>, <<".", "l", "t", "x">>, <<".", "l", "t", "d">>}
TextExts == {<<".", "c", "s", "v">>, <<".", "t", "x", "t">>, <<".", "a", "s", "c">>}

LynxPaths == {<<"a", ".", "t", "e", "m">>, <<"d", "/", "b", ".", "L", "T", "X">>, <<"C", ":", "\\", "r", ".", "1", "\\", "c", ".", "L", "t", "d">>}
TextPaths == {<<"a", ".", "c", "s", "v">>, <<"d", "/", "b", ".", "C", "S", "V">>, <<"C", ":", "\\", "r", "\\", "e", ".", "f", ".", "T", "x", "t">>, <<"h", ".", "a", "s", "c">>}
OtherPaths == {<<"g", ".", "x", "y", "z">>, <<"g", ".", "X", "y", "Z">>, <<"t", "e", "m">>, <<".", "c", "s", "v">>, <<"d", ".", "t", "e", "m", "/", "n", "o", "e", "x", "t">>, <<"x", ".", "t", "e", "m", "p">>, <<"y", ".", "C", "S", "V", ".", "b", "a", "k">>}
AllPaths == LynxPaths \cup TextPaths \cup OtherPaths
BatchPaths == {<<"a", ".", "t", "e", "m">>, <<"d", "/", "b", ".", "C", "S", "V">>, <<"g", ".", "x", "y", "z">>}

\* raw <<SnName(i), SnUnit(i)>> of a channel
RawChannels ==
    { <<<<"F", "o", "r", "c", "e", " ", " ", "X">>, <<"k", " ", "N">>>>,
      <<<<"G", " ", "1", "2">>, <<"M", "P", "a">>>>,
      <<<<" ", "a", "%", "b", "\t">>, <<" ">>>> }

FreqValues == {0, 1, 2}
Amplitudes == {0, 11}

\* the samples a file holds for one channel: +amp, -amp, +amp, ...
Buffer(amp, length) == [j \in 1..length |-> IF j % 2 = 1 THEN amp ELSE 0 - amp]

AllLynxMetas ==
    { [nChannels |-> Len(chs), nSamples |-> len, SampleFreq |-> fs,
       channels |-> chs, amp |-> a] :
        chs \in SeqsUpTo(RawChannels, MaxChannels), len \in 0..MaxSamples,
        fs \in FreqValues, a \in Amplitudes }

BatchLynxMetas ==
    { m \in AllLynxMetas :
        /\ m.nChannels \in {1, 2}
        /\ m.nSamples = MaxSamples
        /\ m.SampleFreq = 2
        /\ \A j \in DOMAIN m.channels : m.channels[j] = <<<<"G", " ", "1", "2">>, <<"M", "P", "a">>>> }

LynxMetas == IF caller = "process_files" THEN BatchLynxMetas ELSE AllLynxMetas

ColumnNames == {<<"t", "i", "m", "e">>, <<"T", "i", "m", "e">>, <<"T", "I", "M", "E">>, <<"A">>, <<"B">>}

\* the column labels pandas gives a parsed table are distinct
Headers ==
    { h \in SeqsUpTo(ColumnNames, MaxCols) :
        /\ h # <<>>
        /\ \A a, b \in DOMAIN h : a # b => h[a] # h[b] }

TimeVectors ==
    { [j \in 1..n |-> t0 + (j - 1) * dt] : n \in 0..MaxSamples, t0 \in {0, 1}, dt \in {0, 1, 2} }

\* a text file: whether pandas parses it and, if so, its table
UnparsedFile == [parsed |-> FALSE, columns |-> <<>>, time |-> <<>>, amp |-> 0]

AllTextFiles ==
    {UnparsedFile} \cup
    { [parsed |-> TRUE, columns |-> h, time |-> tv, amp |-> a] :
        h \in Headers, tv \in TimeVectors, a \in Amplitudes }

BatchTextFiles ==
    {UnparsedFile} \cup
    { f \in AllTextFiles :
        /\ f.parsed
        /\ f.columns \in {<<<<"t", "i", "m", "e">>, <<"A">>>>, <<<<"A">>, <<"B">>, <<"t", "i", "m", "e">>>>, <<<<"T", "i", "m", "e">>, <<"A">>>>}
        /\ f.time \in {<<>>, <<0, 1, 2>>}
        /\ f.amp = 11 }

TextFiles == IF caller = "process_files" THEN BatchTextFiles ELSE AllTextFiles

HeaderLines ==
    { <<"t", "i", "m", "e", ",", "A", ",", "B", "\n">>, <<" ", "T", "i", "m", "e", " ", ",", " ", "A", " ", "[", "k", "N", "]", "\n">>, <<"A", ",", "T", "I", "M", "E">>, <<>>, <<"\n">> }

(***************************************************************************)
(* file_io.py                                                              *)
(***************************************************************************)
Raised(kind, what, arg) == [kind |-> kind, what |-> what, arg |-> arg]

\* where control goes when a reader returns or raises
AfterRead == IF caller = "process_files" THEN "pf_handle" ELSE "done"

\* An extension taken as written, without lowering its case.
dispatch_extVerbatim(path) == splitext(path)[2]

\* ext = os.path.splitext(filename)[1].lower()
dispatch_ext(path) == lower(splitext(path)[2])

\* read_file_data: dispatch on the extension
ReadFileData ==
    /\ pc = "read_file_data"
    /\ ext' = dispatch_ext(filename)
    /\ IF ext' \in LynxExts
       THEN /\ route' = "read_lynx_file"
            /\ pc' = "lynx_open"
            /\ err' = err
       ELSE IF ext' \in TextExts
       THEN /\ route' = "read_text_file"
            /\ pc' = "text_read"
            /\ err' = err
       ELSE /\ route' = route
            /\ pc' = AfterRead
            /\ err' = Raised("ValueError", "Unsupported file type", ext')
    /\ UNCHANGED <<caller, entry, cycleVars, filename, handle, meta, i, data_matrix,
                   channel_names, ret, batchVars>>

\* read_channel_headers: dispatch on the extension
ReadChannelHeaders ==
    /\ pc = "read_channel_headers"
    /\ ext' = dispatch_ext(filename)
    /\ IF ext' \in LynxExts
       THEN /\ route' = "read_lynx_headers"
            /\ pc' = "hdr_open"
            /\ err' = err
       ELSE IF ext' \in TextExts
       THEN /\ route' = "read_text_headers"
            /\ pc' = "text_headers"
            /\ err' = err
       ELSE /\ route' = route
            /\ pc' = AfterRead
            /\ err' = Raised("ValueError", "Unsupported file type", ext')
    /\ UNCHANGED <<caller, entry, cycleVars, filename, handle, meta, i, data_matrix,
                   channel_names, ret, batchVars>>

\* A cleaning that drops whitespace instead of turning it into underscores.
cleanDropsWhitespace(raw) == sub_unwanted(strip(raw))

\* re.sub(r'[^\w\-./]', '', re.sub(r'\s+', '_', raw.strip()))
clean(raw) == sub_unwanted(sub_whitespace(strip(raw)))

\* the channel identifier built in the loops of read_lynx_file and
\* read_lynx_headers; index is the 0-based loop variable i
r_with_unit(name, unit, index) ==
    LET r == clean(name)
        u == clean(unit)
        named == IF u # <<>> THEN r \o <<"[">> \o u \o <<"]">> ELSE r
    IN  str(index + 1) \o <<":">> \o named

\* read_lynx_file: Dispatch("LynxFile.FileTS") and OpenFile(filename)
LynxOpen ==
    /\ pc = "lynx_open"
    /\ \E opened \in BOOLEAN :
        IF opened
        THEN /\ handle' = "open"
             /\ pc' = "lynx_meta"
             /\ err' = err
        ELSE /\ handle' = "created"
             /\ pc' = AfterRead
             /\ err' = Raised("RuntimeError", "Erro ao abrir arquivo", <<>>)
    /\ UNCHANGED <<caller, entry, cycleVars, filename, ext, route, meta, i, data_matrix,
                   channel_names, ret, batchVars>>

\* read_lynx_file: the metadata of the open file
LynxMeta ==
    /\ pc = "lynx_meta"
    /\ meta' \in LynxMetas
    /\ i' = 0
    /\ data_matrix' = <<>>
    /\ channel_names' = <<>>
    /\ pc' = "lynx_loop"
    /\ UNCHANGED <<caller, entry, cycleVars, filename, ext, route, handle, ret, err,
                   batchVars>>

\* read_lynx_file: one iteration of `for i in range(channels)`
LynxChannel ==
    /\ pc = "lynx_loop"
    /\ i < meta.nChannels
    /\ \E result \in {"success", "failure", "not a tuple"} :
        IF result = "not a tuple"
        THEN /\ err' = Raised("RuntimeError", "ReadBuffer retornou valor inesperado", <<>>)
             /\ pc' = AfterRead
             /\ UNCHANGED <<i, data_matrix, channel_names>>
        ELSE IF result = "failure"
        THEN /\ err' = Raised("RuntimeError", "Erro ao ler canal", str(i))
             /\ pc' = AfterRead
             /\ UNCHANGED <<i, data_matrix, channel_names>>
        ELSE /\ data_matrix' = Append(data_matrix, Buffer(meta.amp, meta.nSamples))
             /\ channel_names' =
                    Append(channel_names,
                           r_with_unit(meta.channels[i + 1][1], meta.channels[i + 1][2], i))
             /\ i' = i + 1
             /\ UNCHANGED <<pc, err>>
    /\ UNCHANGED <<caller, entry, cycleVars, filename, ext, route, handle, meta, ret,
                   batchVars>>

\* duration = [length / Fs]
lynx_duration(length, Fs) == Rat(length, Fs)

\* np.linspace(0, (length - 1) / Fs, length)
linspace_time(length, Fs) == [j \in 1..length |-> Rat(j - 1, Fs)]

\* read_lynx_file: build the DataFrame and return
LynxReturn ==
    /\ pc = "lynx_loop"
    /\ i >= meta.nChannels
    /\ pc' = AfterRead
    /\ IF data_matrix = <<>>
       THEN /\ err' = Raised("ValueError", "need at least one array to concatenate", <<>>)
            /\ ret' = ret
       ELSE IF meta.SampleFreq = 0
       THEN /\ err' = Raised("ZeroDivisionError", "float division by zero", <<>>)
            /\ ret' = ret
       ELSE /\ err' = err
            /\ ret' = [df |-> [columns |-> Append(channel_names, <<"t", "i", "m", "e">>),
                               data |-> Append(data_matrix,
                                               linspace_time(meta.nSamples, meta.SampleFreq))],
                       base |-> splitext(filename)[1],
                       duration |-> lynx_duration(meta.nSamples, meta.SampleFreq),
                       nomes_sinais |-> Append(channel_names, <<"t", "i", "m", "e">>),
                       Fs |-> Rat(meta.SampleFreq, 1)]
    /\ UNCHANGED <<caller, entry, cycleVars, filename, ext, route, handle, meta, i,
                   data_matrix, channel_names, batchVars>>

\* read_lynx_headers: Dispatch("LynxFile.FileTS") and OpenFile(filename), unchecked
HeadersOpen ==
    /\ pc = "hdr_open"
    /\ \E opened \in BOOLEAN : handle' = IF opened THEN "open" ELSE "created"
    /\ pc' = "hdr_meta"
    /\ UNCHANGED <<caller, entry, cycleVars, filename, ext, route, meta, i, data_matrix,
                   channel_names, ret, err, batchVars>>

\* read_lynx_headers: the metadata, whatever the object reports
HeadersMeta ==
    /\ pc = "hdr_meta"
    /\ meta' \in {[nChannels |-> m.nChannels, channels |-> m.channels] : m \in LynxMetas}
    /\ i' = 0
    /\ channel_names' = <<>>
    /\ pc' = "hdr_loop"
    /\ UNCHANGED <<caller, entry, cycleVars, filename, ext, route, handle, data_matrix,
                   ret, err, batchVars>>

\* read_lynx_headers: one iteration of `for i in range(channels)`
HeadersChannel ==
    /\ pc = "hdr_loop"
    /\ i < meta.nChannels
    /\ channel_names' =
           Append(channel_names,
                  r_with_unit(meta.channels[i + 1][1], meta.channels[i + 1][2], i))
    /\ i' = i + 1
    /\ UNCHANGED <<pc, caller, entry, cycleVars, filename, ext, route, handle, meta,
                   data_matrix, ret, err, batchVars>>

\* read_lynx_headers: return nomes_sinais
HeadersReturn ==
    /\ pc = "hdr_loop"
    /\ i >= meta.nChannels
    /\ ret' = [nomes_sinais |-> channel_names]
    /\ pc' = AfterRead
    /\ UNCHANGED <<caller, entry, cycleVars, filename, ext, route, handle, meta, i,
                   data_matrix, channel_names, err, batchVars>>

\* "time" in df_temp.columns
has_time_column(columns) == \E j \in DOMAIN columns : columns[j] = <<"t", "i", "m", "e">>

\* if df_temp.columns[0] == "time": cols = list(df_temp.columns[1:]) + ["time"]
reorder_columns(columns) ==
    IF columns[1] = <<"t", "i", "m", "e">> THEN Append(Tail(columns), <<"t", "i", "m", "e">>) ELSE columns

\* duration = [time_data.iloc[-1] - time_data.iloc[0]]
text_duration(time_data) == Rat(time_data[Len(time_data)] - time_data[1], 1)

\* the column of a parsed table under one label
TextColumn(file, label) ==
    IF label = <<"t", "i", "m", "e">> THEN file.time ELSE Buffer(file.amp, Len(file.time))

\* read_text_file
ReadTextFile ==
    /\ pc = "text_read"
    /\ pc' = AfterRead
    /\ \E file \in TextFiles :
        /\ meta' = file
        /\ IF ~file.parsed
           THEN /\ err' = Raised("ParserError", "pd.read_csv", <<>>)
                /\ ret' = ret
           ELSE IF ~has_time_column(file.columns)
           THEN /\ err' = Raised("ValueError", "'time' column not found", filename)
                /\ ret' = ret
           ELSE IF file.time = <<>>
           THEN /\ err' = Raised("IndexError", "single positional indexer is out-of-bounds", <<>>)
                /\ ret' = ret
           ELSE LET cols == reorder_columns(file.columns)
                    duration == text_duration(file.time)
                IN  /\ err' = err
                    /\ ret' = [df |-> [columns |-> cols,
                                       data |-> [j \in DOMAIN cols |-> TextColumn(file, cols[j])]],
                               base |-> splitext(basename(filename))[1],
                               duration |-> duration,
                               nomes_sinais |-> cols,
                               Fs |-> IF duration[1] # 0
                                      THEN Rat(Len(file.time) - 1, duration[1])
                                      ELSE Rat(0, 1)]
    /\ UNCHANGED <<caller, entry, cycleVars, filename, ext, route, handle, i, data_matrix,
                   channel_names, batchVars>>

\* str.split(",")
RECURSIVE split_commas(_)
split_commas(s) ==
    LET commas == {j \in DOMAIN s : s[j] = ","}
    IN  IF commas = {} THEN <<s>>
        ELSE LET first == CHOOSE j \in commas : \A h \in commas : j <= h
             IN  <<SubSeq(s, 1, first - 1)>> \o split_commas(SubSeq(s, first + 1, Len(s)))

NotTime(label) == lower(label) # <<"t", "i", "m", "e">>

\* read_text_headers
ReadTextHeaders ==
    /\ pc = "text_headers"
    /\ pc' = AfterRead
    /\ \E found \in BOOLEAN, header_line \in HeaderLines :
        IF ~found
        THEN /\ err' = Raised("FileNotFoundError", "open", filename)
             /\ ret' = ret
        ELSE LET fields == split_commas(strip(header_line))
                 stripped == [j \in DOMAIN fields |-> strip(fields[j])]
             IN  /\ ret' = [nomes_sinais |-> SelectSeq(stripped, NotTime)]
                 /\ err' = err
    /\ UNCHANGED <<caller, entry, cycleVars, filename, ext, route, handle, meta, i,
                   data_matrix, channel_names, batchVars>>

(***************************************************************************)
(* cycle_count_zc.py: process_files                                        *)
(***************************************************************************)
\* channels = [c for c in df.columns if c.lower() != "time"]
channels_of(frame) == SelectSeq(frame.columns, NotTime)

\* df[col].values
column_values(frame, col) ==
    frame.data[CHOOSE j \in DOMAIN frame.columns : frame.columns[j] = col]

Longest(rws) ==
    IF rws = <<>> THEN 0
    ELSE LET lens == {Len(rws[j]) : j \in DOMAIN rws}
         IN  CHOOSE n \in lens : \A m \in lens : m <= n

\* pd.DataFrame(rows, columns=header): short rows are padded, and the number
\* of columns must be that of the longest row
data_frame(rws, header) ==
    IF Len(header) # Longest(rws)
    THEN Raised("ValueError", "columns passed, passed data had columns", <<>>)
    ELSE [kind |-> "written",
          header |-> header,
          rows |-> [j \in DOMAIN rws |->
                      rws[j] \o [n \in 1..(Len(header) - Len(rws[j])) |-> "NaN"]]]

\* paths = filedialog.askopenfilenames(...); if not paths: return
PfSelect ==
    /\ pc = "process_files"
    /\ IF paths = <<>>
       THEN /\ pc' = "done"
            /\ report' = [kind |-> "No file selected"]
            /\ k' = k
       ELSE /\ pc' = "pf_loop"
            /\ report' = report
            /\ k' = 1
    /\ UNCHANGED <<caller, entry, cycleVars, ioVars, paths, rows, df, printed>>

\* for path in paths: file_io.read_file_data(path)
PfRead ==
    /\ pc = "pf_loop"
    /\ k <= Len(paths)
    /\ filename' = paths[k]
    /\ ext' = <<>>
    /\ route' = "none"
    /\ handle' = "none"
    /\ meta' = None
    /\ i' = 0
    /\ data_matrix' = <<>>
    /\ channel_names' = <<>>
    /\ ret' = None
    /\ err' = None
    /\ pc' = "read_file_data"
    /\ UNCHANGED <<caller, entry, cycleVars, batchVars>>

\* the except branch, or the summary row of the file
PfHandle ==
    /\ pc = "pf_handle"
    /\ IF err # None
       THEN /\ printed' = Append(printed, k)
            /\ UNCHANGED <<rows, df>>
       ELSE LET channels == channels_of(ret.df)
                counts == [j \in DOMAIN channels |->
                             count_cycles_zero_crossing(column_values(ret.df, channels[j]),
                                                        THRESHOLD)]
                row == <<basename(paths[k]), round4(ret.duration)>> \o counts
            IN  /\ rows' = Append(rows, row)
                /\ df' = ret.df
                /\ printed' = printed
    /\ k' = k + 1
    /\ pc' = "pf_loop"
    /\ UNCHANGED <<caller, entry, cycleVars, ioVars, paths, report>>

\* the header from df, the DataFrame of the rows, and to_csv
PfWrite ==
    /\ pc = "pf_loop"
    /\ k > Len(paths)
    /\ report' = IF df = Unbound
                 THEN Raised("UnboundLocalError", "df", <<>>)
                 ELSE data_frame(rows, <<<<"F", "i", "l", "e">>, <<"D", "u", "r", "a", "t", "i", "o", "n", " ", "(", "s", ")">>>> \o channels_of(df))
    /\ pc' = "done"
    /\ UNCHANGED <<caller, entry, cycleVars, ioVars, paths, k, rows, df, printed>>

(***************************************************************************)
(* Specifications: one call of count_cycles_zero_crossing, one call of a   *)
(* file_io entry point, one run of process_files.                          *)
(***************************************************************************)
CycleIdle ==
    /\ signal = <<>> /\ threshold = 0 /\ idx = 0 /\ state = 0 /\ flips = 0
    /\ cycles = None

ReaderIdle ==
    /\ ext = <<>> /\ route = "none" /\ handle = "none"
    /\ meta = None /\ i = 0 /\ data_matrix = <<>> /\ channel_names = <<>>
    /\ ret = None /\ err = None

BatchIdle ==
    /\ paths = <<>> /\ k = 0 /\ rows = <<>> /\ df = Unbound /\ printed = <<>>
    /\ report = None

InitCycle ==
    /\ pc = "cc_loop"
    /\ caller = "top"
    /\ entry = "count_cycles_zero_crossing"
    /\ signal \in SeqsUpTo(Samples, MaxLen)
    /\ threshold \in Thresholds
    /\ idx = 1
    /\ state = 0
    /\ flips = 0
    /\ cycles = None
    /\ filename = <<>>
    /\ ReaderIdle
    /\ BatchIdle

NextCycle == CountStep \/ CountReturn

SpecCycle == InitCycle /\ [][NextCycle]_vars

InitIO ==
    /\ pc \in {"read_file_data", "read_channel_headers"}
    /\ entry = pc
    /\ caller = "top"
    /\ filename \in AllPaths
    /\ ReaderIdle
    /\ CycleIdle
    /\ BatchIdle

NextIO ==
    \/ ReadFileData
    \/ ReadChannelHeaders
    \/ LynxOpen
    \/ LynxMeta
    \/ LynxChannel
    \/ LynxReturn
    \/ HeadersOpen
    \/ HeadersMeta
    \/ HeadersChannel
    \/ HeadersReturn
    \/ ReadTextFile
    \/ ReadTextHeaders

SpecIO == InitIO /\ [][NextIO]_vars

InitBatch ==
    /\ pc = "process_files"
    /\ entry = "process_files"
    /\ caller = "process_files"
    /\ paths \in SeqsUpTo(BatchPaths, MaxFiles)
    /\ k = 0
    /\ rows = <<>>
    /\ df = Unbound
    /\ printed = <<>>
    /\ report = None
    /\ filename = <<>>
    /\ ReaderIdle
    /\ CycleIdle

NextBatch ==
    \/ PfSelect
    \/ PfRead
    \/ PfHandle
    \/ PfWrite
    \/ ReadFileData
    \/ LynxOpen
    \/ LynxMeta
    \/ LynxChannel
    \/ LynxReturn
    \/ ReadTextFile

SpecBatch == InitBatch /\ [][NextBatch]_vars

(***************************************************************************)
(* Properties                                                              *)
(***************************************************************************)
\* The three-state machine as the specification words it: the number of
\* direct Positive<->Negative transitions over x, starting in state q.
RECURSIVE DirectFlips(_, _, _)
DirectFlips(x, t, q) ==
    IF x = <<>> THEN 0
    ELSE LET v == Head(x)
         IN  CASE q = "Neutral" ->
                    DirectFlips(Tail(x), t,
                                IF v > t THEN "Positive"
                                ELSE IF v < 0 - t THEN "Negative" ELSE "Neutral")
               [] q = "Positive" ->
                    IF v < 0 - t THEN 1 + DirectFlips(Tail(x), t, "Negative")
                    ELSE DirectFlips(Tail(x), t, "Positive")
               [] q = "Negative" ->
                    IF v > t THEN 1 + DirectFlips(Tail(x), t, "Positive")
                    ELSE DirectFlips(Tail(x), t, "Negative")

Returned == pc = "done" /\ entry = "count_cycles_zero_crossing"

\* C1: for every sample sequence and every threshold t > 0 the call returns
\* floor(F / 2), F being the number of direct Positive<->Negative transitions
\* of the three-state machine; an odd F loses its trailing half-flip, and
\* empty or never-beyond-threshold input gives 0.
C1_HalfTheFlips ==
    (Returned /\ threshold > 0) =>
        /\ cycles = DirectFlips(signal, threshold, "Neutral") \div 2
        /\ (\A j \in DOMAIN signal : signal[j] <= threshold /\ signal[j] >= 0 - threshold)
               => cycles = 0

\* a call that returned 1 for three flips: the trailing half-flip is dropped
C1_Witness ==
    /\ Returned
    /\ threshold > 0
    /\ DirectFlips(signal, threshold, "Neutral") = 3
    /\ cycles = 1

\* C2: a call with a threshold <= 0 fails with InvalidThreshold for every
\* sample sequence, the empty one included, and returns no cycle count.
C2_InvalidThresholdRaised ==
    (Returned /\ threshold <= 0) => (err.kind = "InvalidThreshold" /\ cycles = None)

InBand(v, t) == 0 - t <= v /\ v <= t

InsertAt(x, p, v) == SubSeq(x, 1, p) \o <<v>> \o SubSeq(x, p + 1, Len(x))

\* C9: within one call the state, once not Neutral, is never Neutral again;
\* a sample inside [-threshold, threshold] changes neither the state nor the
\* flip count; and inserting an in-band sample anywhere in the sequence, or
\* taking every in-band sample out of it, leaves the returned count unchanged.
C9_HysteresisLockIn ==
    /\ [][(pc = "cc_loop" /\ state # 0) => state' # 0]_vars
    /\ [][(pc = "cc_loop" /\ idx <= Len(signal) /\ InBand(signal[idx], threshold))
            => (state' = state /\ flips' = flips)]_vars
    /\ [](Returned =>
            /\ \A p \in 0..Len(signal), v \in Samples :
                    InBand(v, threshold) =>
                        count_cycles_zero_crossing(InsertAt(signal, p, v), threshold) = cycles
            /\ count_cycles_zero_crossing(SelectSeq(signal, LAMBDA v : ~InBand(v, threshold)),
                                          threshold) = cycles)

\* a full cycle counted across an in-band sample met after the polarity was set
C9_Witness ==
    /\ Returned
    /\ threshold > 0
    /\ cycles = 1
    /\ Len(signal) >= 2
    /\ ~InBand(signal[1], threshold)
    /\ \E p \in 2..Len(signal) : InBand(signal[p], threshold)

LynxReaderEnded == pc = "done" /\ route \in {"read_lynx_file", "read_lynx_headers"}

\* C3: in no terminal state of read_lynx_file or read_lynx_headers is a
\* decoder handle that was opened still open.
C3_HandleReleased == LynxReaderEnded => handle # "open"

TextReaderEnded == pc = "done" /\ route = "read_text_file" /\ meta.parsed

MissingTimeColumn == err.kind = "ValueError" /\ err.what = "'time' column not found"

SameLetter(c, d) ==
    c = d \/ \E j \in DOMAIN UpperCase : {c, d} = {UpperCase[j], LowerCase[j]}

EqualsIgnoringCase(a, b) ==
    Len(a) = Len(b) /\ \A j \in DOMAIN a : SameLetter(a[j], b[j])

\* C4: the text reader fails with MissingTimeColumn exactly when no header
\* column equals `time` case-insensitively; `time`, `Time` and `TIME` are
\* accepted.
C4_MissingTimeExactly ==
    TextReaderEnded =>
        (MissingTimeColumn <=>
            ~\E j \in DOMAIN meta.columns : EqualsIgnoringCase(meta.columns[j], <<"t", "i", "m", "e">>))

IsNotTimeLabel(label) == label # <<"t", "i", "m", "e">>

\* C5: a dataset the text reader returns has the time column last and the
\* other columns in their original relative order, wherever the file has the
\* time column.
C5_TimeColumnLast ==
    (TextReaderEnded /\ ret # None) =>
        /\ ret.df.columns[Len(ret.df.columns)] = <<"t", "i", "m", "e">>
        /\ SelectSeq(ret.df.columns, IsNotTimeLabel) = SelectSeq(meta.columns, IsNotTimeLabel)

TimeOf(frame) == column_values(frame, <<"t", "i", "m", "e">>)

TimeSpan(frame) ==
    LET t == TimeOf(frame)
    IN  IF route = "read_lynx_file"
        THEN RatSub(t[Len(t)], t[1])
        ELSE Rat(t[Len(t)] - t[1], 1)

\* C6: every dataset a reader returns has duration = time[last] - time[0] of
\* its own time vector; for the binary reader that is its last time value.
C6_DurationIsTimeSpan ==
    (/\ pc = "done"
     /\ route \in {"read_lynx_file", "read_text_file"}
     /\ ret # None
     /\ TimeOf(ret.df) # <<>>)
        => RatEq(ret.duration, TimeSpan(ret.df))

Dispatched == entry \in {"read_file_data", "read_channel_headers"} /\ pc # entry

\* C7: both dispatchers compare the extension case-insensitively and route
\* .tem/.ltx/.ltd to the binary reader and .csv/.txt/.asc to the text reader;
\* any other extension fails with UnsupportedFormat carrying that extension,
\* with no reader invoked and no decoder handle opened.
C7_Dispatch ==
    Dispatched =>
        LET e == splitext(filename)[2]
            binary == \E x \in LynxExts : EqualsIgnoringCase(e, x)
            text == \E x \in TextExts : EqualsIgnoringCase(e, x)
        IN  /\ binary => route = (IF entry = "read_file_data"
                                  THEN "read_lynx_file" ELSE "read_lynx_headers")
            /\ text => route = (IF entry = "read_file_data"
                                THEN "read_text_file" ELSE "read_text_headers")
            /\ (~binary /\ ~text) =>
                    /\ pc = "done"
                    /\ err.kind = "ValueError"
                    /\ err.what = "Unsupported file type"
                    /\ EqualsIgnoringCase(err.arg, e)
                    /\ route = "none"
                    /\ handle = "none"
                    /\ ret = None

\* read_channel_headers refusing a mixed-case unknown extension
C7_Witness ==
    /\ pc = "done"
    /\ entry = "read_channel_headers"
    /\ filename = <<"g", ".", "X", "y", "Z">>
    /\ err.what = "Unsupported file type"
    /\ err.arg = <<".", "x", "y", "z">>

ForceX_kN == <<<<"F", "o", "r", "c", "e", " ", " ", "X">>, <<"k", " ", "N">>>>

ThirdChannelIsForceX ==
    /\ route \in {"read_lynx_file", "read_lynx_headers"}
    /\ Len(channel_names) >= 3
    /\ meta.channels[3] = ForceX_kN

\* C8 as stated: name "Force  X", unit "k N" and index 3 yield "3:Force_X[kN]".
C8_AsStated == ThirdChannelIsForceX => channel_names[3] = <<"3", ":", "F", "o", "r", "c", "e", "_", "X", "[", "k", "N", "]">>

\* C8: name "Force  X", unit "k N" and index 3 yield "3:Force_X[k_N]": the
\* whitespace run of the name and the space of the unit each become one
\* underscore, and the underscore stays in the unit segment.
C8_Normalized == ThirdChannelIsForceX => channel_names[3] = <<"3", ":", "F", "o", "r", "c", "e", "_", "X", "[", "k", "_", "N", "]">>

\* the headers-only reader having named its third channel
C8_Witness == ThirdChannelIsForceX /\ route = "read_lynx_headers" /\ pc = "done"

Succeeded == SelectSeq([j \in DOMAIN paths |-> j], LAMBDA j : \A n \in DOMAIN printed : printed[n] # j)

\* C10: for a non-empty selection, whichever reads fail, process_files ends
\* by writing the report with one row per successfully read file, in
\* selection order, under the channel header of the last processed file.
C10_ReportWritten ==
    (pc = "done" /\ entry = "process_files" /\ paths # <<>>) =>
        /\ report.kind = "written"
        /\ Len(report.rows) = Len(Succeeded)
        /\ \A j \in DOMAIN report.rows : report.rows[j][1] = basename(paths[Succeeded[j]])
        /\ report.header = <<<<"F", "i", "l", "e">>, <<"D", "u", "r", "a", "t", "i", "o", "n", " ", "(", "s", ")">>>> \o channels_of(df)

====
